---- MODULE Spec2Model ----
(***************************************************************************)
(* Chapter lifecycle of the church-magazine editorial workflow.            *)
(*                                                                         *)
(* The store is the `chapters` table.  Every page (writer, editor, legacy  *)
(* editor, admin) keeps a local copy of the rows it loaded and decides     *)
(* from that copy; all a handler sends to the store is an update or a      *)
(* delete with a filter chain (.eq / .in).  A handler is one action: the   *)
(* check of the local copy, the filtered store write, the toast, and the   *)
(* update or reload of the local copy.                                     *)
(*                                                                         *)
(* One browser keeps its page open while others act (the held page): its   *)
(* session, page and local copy are state, and the copy goes stale when    *)
(* another request changes the store.  Every other request comes from a    *)
(* visit: some user loads a page and issues the request from the copy just *)
(* loaded.  Held page and visitors run the same handlers.                  *)
(*                                                                         *)
(* Timestamps are NULL or set; a body is a short sequence of characters.   *)
(* The writer page is the one of part_000 lines 694-1455.                  *)
(***************************************************************************)
EXTENDS Integers, Sequences, FiniteSets, TLC

VARIABLES
    store,      \* chapters table: chapter id -> row (NoRow once deleted)
    session,    \* held page: the user of the session cookie, or NULL
    page,       \* held page: the page in front
    local,      \* held page: the status the page shows for each chapter
    editingId,  \* held page: chapter of the editor page's editing modal, or NoChapter
    resp,       \* held page: handler, chapter, toast and matched rows of the request
                \* made in the step just taken (NoRequest after any other step)
    files,      \* files table: chapter id -> the file records with that chapter_id
    blobs,      \* storage bucket 'photos': the objects it holds
    localFiles, \* held page: the files the writer page lists for each chapter
    sent,       \* held page: the request it last had applied (handler, chapter,
                \* user, body), as its user would send it again; NoSent if none
                \* is recorded
    flight,     \* held page: the file upload in progress (chapter, files still
                \* to send, what the next call is), or NoFlight
    users,      \* users table: the rows (id, name, role)
    usersPage,  \* users page, per open tab: the assigned ids it loaded and
                \* the add request it has under way
    usersToast, \* users page: handler and toast of the request just made
    nav,        \* a browser at the middleware: its cookie, the URL it is at, the
                \* last request's path and response, the redirects followed
    busy,       \* held page: the requests whose in-progress flag (saving,
                \* submitting, confirming) is set
    overview    \* ProgressOverview: the counts of the chapters it was given
                \* and the percentage it shows

fileVars == <<files, blobs, localFiles>>
\* state of the specifications that follow one handler call by call
userVars == <<users, usersPage, usersToast>>
sideVars == <<flight, userVars, nav, busy, overview>>
vars == <<store, session, page, local, editingId, resp, files, blobs, localFiles, sent, sideVars>>

----------------------------------------------------------------------------
(* Value sets *)

\* accounts in the users table, by role
NumWriters == 2
NumEditors == 2
NumAdmins == 1

\* users table: a user is <<role, n>>
WriterIds == {"writer"} \X (1 .. NumWriters)
EditorIds == {"editor"} \X (1 .. NumEditors)
AdminIds == {"admin"} \X (1 .. NumAdmins)
Users == WriterIds \cup EditorIds \cup AdminIds
NULL == <<"null", 0>>              \* a NULL uuid column, an absent cookie
Role(u) == u[1]

ChapterIds == {"c1"}
NoChapter == "none"

Statuses == {"draft", "submitted", "editing", "reviewed", "confirmed"}
NotLoaded == "none"                \* the chapter is not in the page's list

\* A timestamptz column is NULL or holds the reading of new Date().toISOString()
NoTime == "null"
Now == "set"

\* Texts are sequences of characters; NullText is a NULL text column.
NullText == <<"NULL">>
InputTexts == { <<" ">>, <<"a">> }

----------------------------------------------------------------------------
(* String.prototype.trim as used by the handlers *)

IsSpace(ch) == ch = " "

RECURSIVE TrimLeft(_)
TrimLeft(s) ==
    IF s = <<>> THEN <<>>
    ELSE IF IsSpace(Head(s)) THEN TrimLeft(Tail(s)) ELSE s

RECURSIVE TrimRight(_)
TrimRight(s) ==
    IF s = <<>> THEN <<>>
    ELSE IF IsSpace(s[Len(s)]) THEN TrimRight(SubSeq(s, 1, Len(s) - 1)) ELSE s

Trim(s) == TrimRight(TrimLeft(s))

\* !body.trim()
IsBlank(s) == Trim(s) = <<>>

----------------------------------------------------------------------------
(* The chapters table *)

\* INSERT INTO chapters (..., writer_id, status) VALUES (..., NULL, 'draft')
NewRow ==
    [ exists        |-> TRUE,
      status        |-> "draft",
      order_number  |-> 1,
      chapter_code  |-> <<"a">>,
      title         |-> <<"a">>,
      writer_id     |-> NULL,
      original_body |-> NullText,
      edited_body   |-> NullText,
      edited_by     |-> NULL,
      edited_at     |-> NoTime,
      reviewed_by   |-> NULL,
      reviewed_at   |-> NoTime,
      confirmed_by  |-> NULL,
      confirmed_at  |-> NoTime,
      submitted_at  |-> NoTime,
      updated_at    |-> NoTime ]

\* What is left of a row after .delete()
NoRow == [NewRow EXCEPT !.exists = FALSE]

\* Rows matched by a filter chain on one chapter id.
Rows(row, matches) == IF row.exists /\ matches THEN 1 ELSE 0

\* What a page's chapter list shows for a row: its status if the select returned it.
Shown(row, kept) == IF Rows(row, kept) = 1 THEN row.status ELSE NotLoaded

\* The toast shown and the number of rows the store write matched.
Resp(op, id, toast, rows) == [op |-> op, id |-> id, toast |-> toast, rows |-> rows]
NoRequest == Resp("none", NoChapter, "none", 0)

\* A request as the page holds it for sending again.
Sent(op, id, user, text) == [op |-> op, id |-> id, user |-> user, text |-> text]
NoSent == Sent("none", NoChapter, NULL, NullText)


NothingLoaded == [c \in ChapterIds |-> NotLoaded]

\* files of one upload request get fresh paths (chapterId/Date.now()_name)
MaxFiles == 2
FileIds == 1 .. MaxFiles
NoFiles == [c \in ChapterIds |-> {}]

\* An upload in progress: the files of the request not yet sent, and whether
\* the next call is the blob upload or the record insert of the first of them
Flight(c, left, stage, new) == [id |-> c, left |-> left, stage |-> stage, new |-> new]
NoFlight == Flight(NoChapter, {}, "none", {})

----------------------------------------------------------------------------
(* The middleware on cookie values and paths *)

\* The role that `const { role } = JSON.parse(session.value)` yields: nothing
\* (no such property, or a parsed number or string), a string, or a
\* one-element array holding a string
RoleValue(type, text) == [type |-> type, text |-> text]
Undefined == RoleValue("undefined", "undefined")
RoleTexts == {"admin", "editor", "writer", "guest", "constructor"}
RoleValues == {Undefined} \cup {RoleValue(t, x) : t \in {"string", "array"}, x \in RoleTexts}

\* request.cookies.get('session'): absent, or a value on which JSON.parse
\* throws, or which parses to null (the destructuring throws), or to a value
\* with the role read from it
Cookie(present, parse, role) == [present |-> present, parse |-> parse, role |-> role]
NoCookie == Cookie(FALSE, "none", Undefined)
Cookies ==
    {NoCookie, Cookie(TRUE, "throws", Undefined), Cookie(TRUE, "null", Undefined)}
       \cup {Cookie(TRUE, "value", r) : r \in RoleValues}

\* pathname as its segments: '/' is <<>>, '/admin/users' is <<"admin", "users">>
Home(role) == <<role>>
FunctionPath == <<"function Object() { [native code] }">>
Paths == {<<>>, <<"admin">>, <<"admin", "users">>, <<"editor">>, <<"editor", "x">>,
          <<"writer">>, <<"writer", "x">>}

\* config.matcher
Matched(pathname) ==
    pathname = <<>> \/ pathname[1] \in {"admin", "editor", "writer"}

\* redirectMap[role]: the property key is the string, or the array's element
\* as a string; the object literal has the three roles as own properties and
\* inherits Object.prototype's.  NoPath stands for undefined.
NoPath == <<"undefined", "undefined">>
PrototypeKeys == {"constructor"}
redirectMap(role) ==
    IF role.text \in {"admin", "editor", "writer"} THEN Home(role.text)
    ELSE IF role.text \in PrototypeKeys THEN FunctionPath
    ELSE NoPath

\* roleRouteMap[pathname] || roleRouteMap['/' + pathname.split('/')[1]]
routeRole(pathname) ==
    IF pathname[1] \in {"admin", "editor", "writer"} THEN pathname[1] ELSE "undefined"

\* role !== requiredRole
Differs(role, required) == ~(role.type = "string" /\ role.text = required)

Response(kind, to) == [kind |-> kind, to |-> to]
PassThrough == Response("next", NoPath)
Redirect(to) == Response("redirect", to)
NoResponse == Response("none", NoPath)

Throws(cookie) == cookie.parse \in {"throws", "null"}

middlewareOn(cookie, pathname) ==
    IF pathname = <<>>
    THEN IF cookie.present /\ ~Throws(cookie) /\ redirectMap(cookie.role) # NoPath
         THEN Redirect(redirectMap(cookie.role))
         ELSE PassThrough
    ELSE IF ~cookie.present THEN Redirect(<<>>)
    ELSE IF Throws(cookie) THEN Redirect(<<>>)
    ELSE IF routeRole(pathname) # "undefined" /\ Differs(cookie.role, routeRole(pathname))
         THEN Redirect(IF redirectMap(cookie.role) # NoPath
                       THEN redirectMap(cookie.role) ELSE <<>>)
         ELSE PassThrough

\* A browser with a cookie at a URL; from and last are the path and the
\* response of the request it made last, hops the redirects it has followed
\* since it was sent to the URL it started from
MaxHops == 4
Nav(cookie, path, from, last, hops) ==
    [cookie |-> cookie, path |-> path, from |-> from, last |-> last, hops |-> hops]
NoNav == Nav(NoCookie, <<>>, NoPath, NoResponse, 0)

----------------------------------------------------------------------------
(* ProgressOverview *)

MaxChapters == 201
NotRendered == 0 - 1
Overview(total, confirmed, progress) ==
    [total |-> total, confirmed |-> confirmed, progress |-> progress]
NoOverview == Overview(0, 0, NotRendered)

\* Math.round(num / den): the nearest integer.  When num / den lies halfway
\* between two integers the result is the upper one; the double that the
\* page computes for it can fall just below the half, and the result is the
\* lower one then.
Round(num, den) ==
    IF (2 * num) % (2 * den) = den
    THEN {num \div den, num \div den + 1}
    ELSE {(2 * num + den) \div (2 * den)}

\* total > 0 ? Math.round((confirmed / total) * 100) : 0
Progress(total, confirmed) ==
    IF total > 0 THEN Round(confirmed * 100, total) ELSE {0}

----------------------------------------------------------------------------
(* The users table and the users page *)

\* the name of a seeded user: the role and as many marks as its number
NameOf(u) == <<u[1]>> \o [i \in 1 .. u[2] |-> "i"]

UserRow(id, name, role) == [id |-> id, name |-> name, role |-> role]
SeedUsers == {UserRow(u, NameOf(u), u[1]) : u \in Users}

MaxNewUsers == 2
NewUserIds == {"new"} \X (1 .. MaxNewUsers)
NumTabs == 2
UserTabs == 1 .. NumTabs

\* addForm as typed
TypedNames == { <<" ">>, <<"a">>, <<"a", " ">> }
Passwords == { <<"1", "2">>, <<"1", "2", "3", "4">> }
AddForms == [name : TypedNames, password : Passwords, role : {"writer", "editor"}]
NoForm == [name |-> <<>>, password |-> <<>>, role |-> "none"]

\* /^\d{4}$/
FourDigits(p) ==
    Len(p) = 4 /\ \A i \in 1 .. Len(p) : p[i] \in {"0", "1", "2", "3", "4", "5", "6", "7", "8", "9"}

\* adding: the add request is between its existence check and its insert
Tab(assigned, adding, form) == [assigned |-> assigned, adding |-> adding, form |-> form]
FreshTab == Tab({}, FALSE, NoForm)

Toast(op, toast) == [op |-> op, toast |-> toast]
NoToast == Toast("none", "none")

Init ==
    /\ store = [c \in ChapterIds |-> NewRow]
    /\ session = NULL
    /\ page = "login"
    /\ local = NothingLoaded
    /\ editingId = NoChapter
    /\ resp = NoRequest
    /\ files = NoFiles
    /\ blobs = {}
    /\ localFiles = NoFiles
    /\ sent = NoSent
    /\ flight = NoFlight
    /\ users = SeedUsers
    /\ usersPage = [t \in UserTabs |-> FreshTab]
    /\ usersToast = NoToast
    /\ nav = NoNav
    /\ busy = {}
    /\ overview = NoOverview

----------------------------------------------------------------------------
(* Routes and page loads *)

Pages == {"writer", "editor", "legacy", "admin"}

\* roleRouteMap; the legacy editor page is an editor page
RequiredRole(p) ==
    CASE p = "writer" -> "writer"
      [] p = "editor" -> "editor"
      [] p = "legacy" -> "editor"
      [] p = "admin"  -> "admin"

\* A protected route passes only with a session whose role is the route's
middleware(u, p) == u # NULL /\ Role(u) = RequiredRole(p)

\* .eq('writer_id', sess.userId) of the writer page's select
WriterLoadFilter(row, w) == row.writer_id = w

\* .in('status', ['submitted', 'editing', 'confirmed']) of the legacy page's select
LegacyLoadFilter(row) == row.status \in {"submitted", "editing", "confirmed"}

\* loadData() of page p for user u: the statuses the page then shows
LoadCopy(p, u, rows) ==
    [c \in ChapterIds |->
        CASE p = "writer" -> Shown(rows[c], WriterLoadFilter(rows[c], u))
          [] p = "legacy" -> Shown(rows[c], LegacyLoadFilter(rows[c]))
          [] OTHER        -> Shown(rows[c], TRUE)]

----------------------------------------------------------------------------
(* Actors: the held page, and visits *)

HeldActor ==
    [held |-> TRUE, user |-> session, page |-> page, editing |-> editingId]

Visit(u, p, e) == [held |-> FALSE, user |-> u, page |-> p, editing |-> e]

\* A visit to page p: another browser whose user passes the middleware, loads
\* the page and issues one request from what it has just loaded. On the editor
\* page the visitor may have opened the editing modal (offered for submitted
\* and editing chapters only).
VisitorsOf(p) ==
    { v \in [held : {FALSE},
             user : {u \in Users : middleware(u, p)},
             page : {p},
             editing : IF p = "editor" THEN ChapterIds \cup {NoChapter}
                                       ELSE {NoChapter}] :
        v.editing # NoChapter =>
            LoadCopy(p, v.user, store)[v.editing] \in {"submitted", "editing"} }

ActorsOn(p) == (IF page = p THEN {HeldActor} ELSE {}) \cup VisitorsOf(p)

\* The status actor a's page shows for chapter c
Copy(a, c) == IF a.held THEN local[c] ELSE LoadCopy(a.page, a.user, store)[c]

\* setChapters / setEditingId of the page that stays open
SetLocal(a, new) == local' = IF a.held THEN new ELSE local
SetEditingId(a, new) == editingId' = IF a.held THEN new ELSE editingId

\* showToast(): the toast of the held page; a visit's toast is shown elsewhere
showToast(a, op, c, toast, rows) ==
    resp' = IF a.held THEN Resp(op, c, toast, rows) ELSE NoRequest

\* A handler that returns at its validation line: no store call, no toast.
returned(a, op, c) ==
    resp' = IF a.held THEN Resp(op, c, "none", 0) ELSE NoRequest

\* login(): the cookie carries the id and role of the users row
Login(u) ==
    /\ session = NULL
    /\ session' = u
    /\ resp' = NoRequest
    /\ UNCHANGED <<store, page, local, editingId, fileVars>>

\* handleLogout of every page: the cookie is deleted and the page left
handleLogout ==
    /\ session # NULL
    /\ session' = NULL
    /\ page' = "login"
    /\ local' = NothingLoaded
    /\ editingId' = NoChapter
    /\ resp' = NoRequest
    /\ localFiles' = NoFiles
    /\ UNCHANGED <<store, files, blobs>>

\* The files the writer page lists: the file records of the chapters it loaded
LoadFiles(p, u, rows) ==
    [c \in ChapterIds |->
        IF p = "writer" /\ LoadCopy(p, u, rows)[c] # NotLoaded THEN files[c] ELSE {}]

\* The held browser opens page p: the middleware lets it through, loadData() runs
loadData(p) ==
    /\ middleware(session, p)
    /\ page' = p
    /\ local' = LoadCopy(p, session, store)
    /\ editingId' = NoChapter
    /\ resp' = NoRequest
    /\ localFiles' = LoadFiles(p, session, store)
    /\ UNCHANGED <<store, session, files, blobs>>

openEditing(c) ==
    /\ page = "editor"
    /\ local[c] \in {"submitted", "editing"}
    /\ editingId' = c
    /\ resp' = NoRequest
    /\ UNCHANGED <<store, session, page, local, fileVars>>

closeEditing ==
    /\ page = "editor"
    /\ editingId # NoChapter
    /\ editingId' = NoChapter
    /\ resp' = NoRequest
    /\ UNCHANGED <<store, session, page, local, fileVars>>

----------------------------------------------------------------------------
(* Writer page *)

isLocked(status) == status = "editing" \/ status = "confirmed"

\* .eq('id', chapterId).eq('writer_id', session.userId)
WriterSaveFilter(row, w) == row.writer_id = w

WriterSavePatch(row, shown, text) ==
    [row EXCEPT !.original_body = text,
                !.updated_at = Now,
                !.status = IF shown = "submitted" THEN "draft" ELSE @]

WriterSave(a, c, text, err) ==
    /\ a.page = "writer"
    /\ Copy(a, c) # NotLoaded
    /\ ~isLocked(Copy(a, c))
    /\ IF err
       THEN /\ showToast(a, "writerSave", c, "error", 0)
            /\ UNCHANGED <<store, local>>
       ELSE /\ store' = [store EXCEPT ![c] =
                   IF Rows(@, WriterSaveFilter(@, a.user)) = 1
                   THEN WriterSavePatch(@, Copy(a, c), text) ELSE @]
            /\ showToast(a, "writerSave", c, "success",
                            Rows(store[c], WriterSaveFilter(store[c], a.user)))
            /\ SetLocal(a, [local EXCEPT ![c] =
                               IF @ = "submitted" THEN "draft" ELSE @])
    /\ UNCHANGED <<session, page, editingId, fileVars>>

\* .eq('id', chapterId).eq('writer_id', session.userId)
WriterSubmitFilter(row, w) == row.writer_id = w

WriterSubmitPatch(row, text) ==
    [row EXCEPT !.original_body = text,
                !.status = "submitted",
                !.updated_at = Now,
                !.submitted_at = Now]

WriterSubmit(a, c, text, err) ==
    /\ a.page = "writer"
    /\ Copy(a, c) # NotLoaded
    /\ ~isLocked(Copy(a, c))
    /\ IF IsBlank(text)
       THEN /\ returned(a, "blankSubmit", c)
            /\ UNCHANGED <<store, local>>
       ELSE IF err
       THEN /\ showToast(a, "writerSubmit", c, "error", 0)
            /\ UNCHANGED <<store, local>>
       ELSE /\ store' = [store EXCEPT ![c] =
                   IF Rows(@, WriterSubmitFilter(@, a.user)) = 1
                   THEN WriterSubmitPatch(@, text) ELSE @]
            /\ showToast(a, "writerSubmit", c, "success",
                            Rows(store[c], WriterSubmitFilter(store[c], a.user)))
            /\ SetLocal(a, [local EXCEPT ![c] = "submitted"])
    /\ UNCHANGED <<session, page, editingId, fileVars>>

----------------------------------------------------------------------------
(* Writer page: files *)

\* paths and record ids not in use
FreeIds == FileIds \ (blobs \cup UNION {files[c] : c \in ChapterIds}
                            \cup UNION {localFiles[c] : c \in ChapterIds}
                            \cup flight.left)

\* position of f in the FileList of the request
Index(f) == Cardinality({g \in FreeIds : g < f}) + 1

\* the FileList of a request of n files
Pick(n) == {f \in FreeIds : Index(f) <= n}

\* the files actor a's page lists for chapter c
ListedFiles(a, c) == IF a.held THEN localFiles[c] ELSE files[c]

SetLocalFiles(a, new) == localFiles' = IF a.held THEN new ELSE localFiles

\* A file row references its chapter's id: the insert of a row whose chapter
\* does not exist is refused (the table's definition is not in the sources)
RecordAccepted(c) == store[c].exists

\* The loop uploads the blob and inserts the record of one file after the
\* other; failAt = k, stage: the k-th file's storage upload, or its insert,
\* throws (failAt = 0: none does).
handleFileUpload(a, c, n, failAt, stage) ==
    /\ a.page = "writer"
    /\ Copy(a, c) # NotLoaded
    /\ ~isLocked(Copy(a, c))
    /\ Cardinality(FreeIds) >= n
    /\ failAt = 0 => stage = "upload"
    /\ ~RecordAccepted(c) => failAt = 1
    /\ LET sel == Pick(n)
           inserted == IF failAt = 0 THEN sel ELSE {f \in sel : Index(f) < failAt}
           uploaded == IF failAt > 0 /\ stage = "insert"
                       THEN {f \in sel : Index(f) <= failAt} ELSE inserted
       IN /\ blobs' = blobs \cup uploaded
          /\ files' = [files EXCEPT ![c] = @ \cup inserted]
          /\ IF failAt = 0
             THEN /\ showToast(a, "fileUpload", c, "success", Cardinality(inserted))
                  /\ SetLocalFiles(a, [localFiles EXCEPT ![c] = @ \cup sel])
             ELSE /\ showToast(a, "fileUpload", c, "error", Cardinality(inserted))
                  /\ UNCHANGED localFiles
    /\ UNCHANGED <<store, session, page, local, editingId>>

\* The same handler call by call, on the held page: the request starts ...
beginUpload(c, n) ==
    /\ page = "writer"
    /\ flight = NoFlight
    /\ Copy(HeldActor, c) # NotLoaded
    /\ ~isLocked(Copy(HeldActor, c))
    /\ Cardinality(FreeIds) >= n
    /\ flight' = Flight(c, Pick(n), "upload", {})
    /\ resp' = NoRequest
    /\ UNCHANGED <<store, session, page, local, editingId, fileVars>>

\* the file of the loop's current round
Current == CHOOSE f \in flight.left : \A g \in flight.left : f <= g

\* ... storage.from('photos').upload(filePath, file) returns ...
uploadBlob(err) ==
    /\ flight.stage = "upload"
    /\ IF err
       THEN /\ showToast(HeldActor, "fileUpload", flight.id, "error", Cardinality(flight.new))
            /\ flight' = NoFlight
            /\ UNCHANGED blobs
       ELSE /\ blobs' = blobs \cup {Current}
            /\ flight' = [flight EXCEPT !.stage = "insert"]
            /\ resp' = NoRequest
    /\ UNCHANGED <<store, session, page, local, editingId, files, localFiles>>

\* ... and from('files').insert({chapter_id, ...}).select().single() returns;
\* after the last file the page adds the new files to its list.
insertRecord(err) ==
    /\ flight.stage = "insert"
    /\ LET c == flight.id
           new == flight.new \cup {Current}
       IN IF err \/ ~RecordAccepted(c)
          THEN /\ showToast(HeldActor, "fileUpload", c, "error", Cardinality(flight.new))
               /\ flight' = NoFlight
               /\ UNCHANGED <<files, localFiles>>
          ELSE /\ files' = [files EXCEPT ![c] = @ \cup {Current}]
               /\ IF flight.left = {Current}
                  THEN /\ showToast(HeldActor, "fileUpload", c, "success", Cardinality(new))
                       /\ localFiles' = [localFiles EXCEPT ![c] = @ \cup new]
                       /\ flight' = NoFlight
                  ELSE /\ resp' = NoRequest
                       /\ flight' = Flight(c, flight.left \ {Current}, "upload", new)
                       /\ UNCHANGED localFiles
    /\ UNCHANGED <<store, session, page, local, editingId, blobs>>

\* storage.remove() first, its result not looked at (removed: whether the
\* object went); then .delete().eq('id', file.id) on files.
handleFileDelete(a, c, f, removed, err) ==
    /\ a.page = "writer"
    /\ Copy(a, c) # NotLoaded
    /\ ~isLocked(Copy(a, c))
    /\ f \in ListedFiles(a, c)
    /\ blobs' = IF removed THEN blobs \ {f} ELSE blobs
    /\ IF err
       THEN /\ showToast(a, "fileDelete", c, "error", 0)
            /\ UNCHANGED <<files, localFiles>>
       ELSE /\ files' = [files EXCEPT ![c] = @ \ {f}]
            /\ showToast(a, "fileDelete", c, "success",
                         IF f \in files[c] THEN 1 ELSE 0)
            /\ SetLocalFiles(a, [localFiles EXCEPT ![c] = @ \ {f}])
    /\ UNCHANGED <<store, session, page, local, editingId>>

----------------------------------------------------------------------------
(* Editor page *)

\* .eq('status', 'submitted'): the update accepted from submitted only
EditorSaveOnlySubmitted(row) == row.status = "submitted"

\* .eq('id', editingId) alone: the update without its status filter
EditorSaveAnyStatus(row) == row.exists

\* .eq('id', editingId).in('status', ['submitted', 'editing'])
EditorSaveFilter(row) == row.status \in {"submitted", "editing"}

EditorSavePatch(row, e, text) ==
    [row EXCEPT !.edited_body = text,
                !.status = "editing",
                !.edited_by = e,
                !.edited_at = Now,
                !.updated_at = Now]

EditorSave(a, text, err) ==
    /\ a.page = "editor"
    /\ a.editing # NoChapter
    /\ LET c == a.editing IN
       /\ Copy(a, c) # NotLoaded
       /\ Copy(a, c) \notin {"confirmed", "reviewed"}
       /\ IF err
          THEN /\ showToast(a, "editorSave", c, "error", 0)
               /\ UNCHANGED <<store, local>>
          ELSE /\ store' = [store EXCEPT ![c] =
                      IF Rows(@, EditorSaveFilter(@)) = 1
                      THEN EditorSavePatch(@, a.user, text) ELSE @]
               /\ showToast(a, "editorSave", c, "success",
                               Rows(store[c], EditorSaveFilter(store[c])))
               /\ SetLocal(a, [local EXCEPT ![c] = "editing"])
    /\ UNCHANGED <<session, page, editingId, fileVars>>

\* .eq('id', editingId) alone
EditorReviewAnyStatus(row) == TRUE

\* .eq('id', editingId).in('status', ['submitted', 'editing'])
EditorReviewFilter(row) == row.status \in {"submitted", "editing"}

EditorReviewPatch(row, e, text) ==
    [row EXCEPT !.edited_body = text,
                !.status = "reviewed",
                !.edited_by = e,
                !.edited_at = Now,
                !.reviewed_by = e,
                !.reviewed_at = Now,
                !.updated_at = Now]

EditorReview(a, text, err) ==
    /\ a.page = "editor"
    /\ a.editing # NoChapter
    /\ LET c == a.editing IN
       /\ Copy(a, c) # NotLoaded
       /\ IF IsBlank(text)
          THEN /\ returned(a, "blankReview", c)
               /\ UNCHANGED <<store, local, editingId>>
          ELSE IF err
          THEN /\ showToast(a, "editorReview", c, "error", 0)
               /\ UNCHANGED <<store, local, editingId>>
          ELSE /\ store' = [store EXCEPT ![c] =
                      IF Rows(@, EditorReviewFilter(@)) = 1
                      THEN EditorReviewPatch(@, a.user, text) ELSE @]
               /\ showToast(a, "editorReview", c, "success",
                               Rows(store[c], EditorReviewFilter(store[c])))
               /\ SetLocal(a, [local EXCEPT ![c] = "reviewed"])
               /\ SetEditingId(a, NoChapter)
    /\ UNCHANGED <<session, page, fileVars>>

----------------------------------------------------------------------------
(* Legacy editor page *)

\* .eq('id', selectedId).in('status', ['submitted', 'editing'])
LegacySaveFilter(row) == row.status \in {"submitted", "editing"}

LegacySavePatch(row, e, text) ==
    [row EXCEPT !.edited_body = text,
                !.status = "editing",
                !.edited_by = e,
                !.edited_at = Now,
                !.updated_at = Now]

LegacyEditorSave(a, c, text, err) ==
    /\ a.page = "legacy"
    /\ Copy(a, c) # NotLoaded
    /\ Copy(a, c) # "confirmed"
    /\ IF err
       THEN /\ showToast(a, "legacySave", c, "error", 0)
            /\ UNCHANGED <<store, local>>
       ELSE /\ store' = [store EXCEPT ![c] =
                   IF Rows(@, LegacySaveFilter(@)) = 1
                   THEN LegacySavePatch(@, a.user, text) ELSE @]
            /\ showToast(a, "legacySave", c, "success",
                            Rows(store[c], LegacySaveFilter(store[c])))
            /\ SetLocal(a, [local EXCEPT ![c] = "editing"])
    /\ UNCHANGED <<session, page, editingId, fileVars>>

\* .eq('id', selectedId).in('status', ['submitted', 'editing'])
LegacyConfirmFilter(row) == row.status \in {"submitted", "editing"}

LegacyConfirmPatch(row, e, text) ==
    [row EXCEPT !.edited_body = text,
                !.status = "confirmed",
                !.edited_by = e,
                !.edited_at = Now,
                !.confirmed_by = e,
                !.confirmed_at = Now,
                !.updated_at = Now]

LegacyEditorConfirm(a, c, text, err) ==
    /\ a.page = "legacy"
    /\ Copy(a, c) # NotLoaded
    /\ Copy(a, c) # "confirmed"
    /\ ~IsBlank(text)
    /\ IF err
       THEN /\ showToast(a, "legacyConfirm", c, "error", 0)
            /\ UNCHANGED <<store, local>>
       ELSE /\ store' = [store EXCEPT ![c] =
                   IF Rows(@, LegacyConfirmFilter(@)) = 1
                   THEN LegacyConfirmPatch(@, a.user, text) ELSE @]
            /\ showToast(a, "legacyConfirm", c, "success",
                            Rows(store[c], LegacyConfirmFilter(store[c])))
            /\ SetLocal(a, [local EXCEPT ![c] = "confirmed"])
    /\ UNCHANGED <<session, page, editingId, fileVars>>

----------------------------------------------------------------------------
(* Admin page *)

\* .eq('id', chapterId).eq('status', 'reviewed')
AdminConfirmFilter(row) == row.status = "reviewed"

AdminConfirmPatch(row, adm) ==
    [row EXCEPT !.status = "confirmed",
                !.confirmed_by = adm,
                !.confirmed_at = Now,
                !.updated_at = Now]

AdminConfirm(a, c, err) ==
    /\ a.page = "admin"
    /\ Copy(a, c) = "reviewed"
    /\ IF err
       THEN /\ showToast(a, "adminConfirm", c, "error", 0)
            /\ UNCHANGED <<store, local>>
       ELSE /\ store' = [store EXCEPT ![c] =
                   IF Rows(@, AdminConfirmFilter(@)) = 1
                   THEN AdminConfirmPatch(@, a.user) ELSE @]
            /\ showToast(a, "adminConfirm", c, "success",
                            Rows(store[c], AdminConfirmFilter(store[c])))
            /\ SetLocal(a, LoadCopy(a.page, a.user, store'))
    /\ UNCHANGED <<session, page, editingId, fileVars>>

\* status back to reviewed, confirmed_by and confirmed_at left as they are
AdminUnconfirmKeepsProvenance(row) ==
    [row EXCEPT !.status = "reviewed", !.updated_at = Now]

\* .eq('id', chapterId) alone
AdminUnconfirmAnyStatus(row) == row.exists

\* .eq('id', chapterId).eq('status', 'confirmed')
AdminUnconfirmFilter(row) == row.status = "confirmed"

AdminUnconfirmPatch(row) ==
    [row EXCEPT !.status = "reviewed",
                !.confirmed_by = NULL,
                !.confirmed_at = NoTime,
                !.updated_at = Now]

AdminUnconfirm(a, c, err) ==
    /\ a.page = "admin"
    /\ Copy(a, c) = "confirmed"
    /\ IF err
       THEN /\ showToast(a, "adminUnconfirm", c, "error", 0)
            /\ UNCHANGED <<store, local>>
       ELSE /\ store' = [store EXCEPT ![c] =
                   IF Rows(@, AdminUnconfirmFilter(@)) = 1
                   THEN AdminUnconfirmPatch(@) ELSE @]
            /\ showToast(a, "adminUnconfirm", c, "success",
                            Rows(store[c], AdminUnconfirmFilter(store[c])))
            /\ SetLocal(a, LoadCopy(a.page, a.user, store'))
    /\ UNCHANGED <<session, page, editingId, fileVars>>

----------------------------------------------------------------------------
(* Chapter management, on the admin page and on the editor page *)

ManagingPages == {"admin", "editor"}

\* .eq('id', chapterId).eq('status', 'draft'): metadata of drafts only
UpdateChapterOnlyDraft(row) == row.status = "draft"

\* .eq('id', chapterId)
UpdateChapterFilter(row) == TRUE

\* The values an edit or add form can hold
MaxOrder == 2
Orders == 1 .. MaxOrder
CodeTexts == { <<" ">>, <<"a", " ">> }
TitleTexts == { <<" ">>, <<"a">>, <<"b", " ">> }
Forms == [order_number : Orders, chapter_code : CodeTexts, title : TitleTexts,
          writer_id : WriterIds \cup {NULL}]

\* openChapterInfoEdit / setEditForm: the form holds the chapter's values, and
\* the writer chosen in it
EditForm(row, writer) ==
    [order_number |-> row.order_number, chapter_code |-> row.chapter_code,
     title |-> row.title, writer_id |-> writer]

\* no check of the form at all
FormAlwaysValid(form) == TRUE

\* !form.chapter_code.trim() || !form.title.trim()
FormValid(form) == ~IsBlank(form.chapter_code) /\ ~IsBlank(form.title)

UpdateChapterPatch(row, form) ==
    [row EXCEPT !.order_number = form.order_number,
                !.chapter_code = Trim(form.chapter_code),
                !.title = Trim(form.title),
                !.writer_id = form.writer_id,
                !.updated_at = Now]

handleUpdateChapterForm(a, c, form, err) ==
    /\ a.page \in ManagingPages
    /\ a.editing = NoChapter
    /\ Copy(a, c) # NotLoaded
    /\ IF ~FormValid(form)
       THEN /\ showToast(a, "updateChapter", c, "error", 0)
            /\ UNCHANGED <<store, local>>
       ELSE IF err
       THEN /\ showToast(a, "updateChapter", c, "error", 0)
            /\ UNCHANGED <<store, local>>
       ELSE /\ store' = [store EXCEPT ![c] =
                   IF Rows(@, UpdateChapterFilter(@)) = 1
                   THEN UpdateChapterPatch(@, form) ELSE @]
            /\ showToast(a, "updateChapter", c, "success",
                            Rows(store[c], UpdateChapterFilter(store[c])))
            /\ SetLocal(a, LoadCopy(a.page, a.user, store'))
    /\ UNCHANGED <<session, page, editingId, fileVars>>

\* The form saved with another writer chosen and nothing else changed
handleUpdateChapter(a, c, writer, err) ==
    handleUpdateChapterForm(a, c, EditForm(store[c], writer), err)

\* .update({writer_id, updated_at}).eq('id', chapterId)
AssignWriterPatch(row, writer) ==
    [row EXCEPT !.writer_id = writer,
                !.updated_at = Now]

handleAssignWriter(a, c, writer, err) ==
    /\ a.page \in ManagingPages
    /\ a.editing = NoChapter
    /\ Copy(a, c) # NotLoaded
    /\ IF err
       THEN /\ showToast(a, "assignWriter", c, "error", 0)
            /\ UNCHANGED <<store, local>>
       ELSE /\ store' = [store EXCEPT ![c] =
                   IF Rows(@, UpdateChapterFilter(@)) = 1
                   THEN AssignWriterPatch(@, writer) ELSE @]
            /\ showToast(a, "assignWriter", c, "success",
                            Rows(store[c], UpdateChapterFilter(store[c])))
            /\ SetLocal(a, LoadCopy(a.page, a.user, store'))
    /\ UNCHANGED <<session, page, editingId, fileVars>>

\* The status a row gets when the insert names none: the column's default.
\* The chapters table's definition is not in the sources; a chapter is
\* created as a draft.
DefaultStatus == "draft"

\* .insert({order_number, chapter_code, title, writer_id}): every other column
\* takes its default
InsertedRow(form) ==
    [NewRow EXCEPT !.status = DefaultStatus,
                   !.order_number = form.order_number,
                   !.chapter_code = Trim(form.chapter_code),
                   !.title = Trim(form.title),
                   !.writer_id = form.writer_id]

\* c: the id the insert gives the new row
handleAddChapter(a, c, form, err) ==
    /\ a.page \in ManagingPages
    /\ a.editing = NoChapter
    /\ ~store[c].exists
    /\ IF ~FormValid(form)
       THEN /\ showToast(a, "addChapter", c, "error", 0)
            /\ UNCHANGED <<store, local>>
       ELSE IF err
       THEN /\ showToast(a, "addChapter", c, "error", 0)
            /\ UNCHANGED <<store, local>>
       ELSE /\ store' = [store EXCEPT ![c] = InsertedRow(form)]
            /\ showToast(a, "addChapter", c, "success", 1)
            /\ SetLocal(a, LoadCopy(a.page, a.user, store'))
    /\ UNCHANGED <<session, page, editingId, fileVars>>

\* files.chapter_id without the foreign key's ON DELETE CASCADE: the records
\* of a deleted chapter stay
FilesKeptAfterDelete(c, rows) == {files}

\* The handler deletes from chapters only.  The files table is not defined in
\* the sources; a file row references its chapter's id, and deleting the
\* chapter leaves no file row that references it.
FilesAfterDelete(c, rows) ==
    IF rows = 1 THEN {[files EXCEPT ![c] = {}]} ELSE {files}

\* .eq('id', chapter.id) alone: the delete without its status filter
DeleteChapterAnyStatus(row) == row.exists

\* .eq('id', chapter.id).eq('status', 'draft')
DeleteChapterFilter(row) == row.status = "draft"

handleDeleteChapter(a, c, err) ==
    /\ a.page \in ManagingPages
    /\ a.editing = NoChapter
    /\ Copy(a, c) = "draft"
    /\ IF err
       THEN /\ showToast(a, "deleteChapter", c, "error", 0)
            /\ UNCHANGED <<store, local, files>>
       ELSE /\ store' = [store EXCEPT ![c] =
                   IF Rows(@, DeleteChapterFilter(@)) = 1 THEN NoRow ELSE @]
            /\ showToast(a, "deleteChapter", c, "success",
                            Rows(store[c], DeleteChapterFilter(store[c])))
            /\ SetLocal(a, LoadCopy(a.page, a.user, store'))
            /\ files' \in FilesAfterDelete(c, Rows(store[c], DeleteChapterFilter(store[c])))
    /\ UNCHANGED <<session, page, editingId, blobs, localFiles>>

----------------------------------------------------------------------------

Next ==
    \/ UNCHANGED <<sent, sideVars>> /\ \E u \in Users : Login(u)
    \/ UNCHANGED <<sent, sideVars>> /\ handleLogout
    \/ UNCHANGED <<sent, sideVars>> /\ \E p \in Pages : loadData(p)
    \/ UNCHANGED <<sent, sideVars>> /\ \E c \in ChapterIds : openEditing(c)
    \/ UNCHANGED <<sent, sideVars>> /\ closeEditing
    \/ UNCHANGED <<sent, sideVars>> /\ \E a \in ActorsOn("writer"), c \in ChapterIds, text \in InputTexts, err \in BOOLEAN :
          WriterSave(a, c, text, err)
    \/ UNCHANGED <<sent, sideVars>> /\ \E a \in ActorsOn("writer"), c \in ChapterIds, text \in InputTexts, err \in BOOLEAN :
          WriterSubmit(a, c, text, err)
    \/ UNCHANGED <<sent, sideVars>> /\ \E a \in ActorsOn("editor"), text \in InputTexts, err \in BOOLEAN :
          EditorSave(a, text, err)
    \/ UNCHANGED <<sent, sideVars>> /\ \E a \in ActorsOn("editor"), text \in InputTexts, err \in BOOLEAN :
          EditorReview(a, text, err)
    \/ UNCHANGED <<sent, sideVars>> /\ \E a \in ActorsOn("legacy"), c \in ChapterIds, text \in InputTexts, err \in BOOLEAN :
          LegacyEditorSave(a, c, text, err)
    \/ UNCHANGED <<sent, sideVars>> /\ \E a \in ActorsOn("legacy"), c \in ChapterIds, text \in InputTexts, err \in BOOLEAN :
          LegacyEditorConfirm(a, c, text, err)
    \/ UNCHANGED <<sent, sideVars>> /\ \E a \in ActorsOn("admin"), c \in ChapterIds, err \in BOOLEAN : AdminConfirm(a, c, err)
    \/ UNCHANGED <<sent, sideVars>> /\ \E a \in ActorsOn("admin"), c \in ChapterIds, err \in BOOLEAN : AdminUnconfirm(a, c, err)
    \/ UNCHANGED <<sent, sideVars>> /\ \E p \in ManagingPages : \E a \in ActorsOn(p), c \in ChapterIds,
                                   w \in WriterIds \cup {NULL}, err \in BOOLEAN :
          handleUpdateChapter(a, c, w, err)
    \/ UNCHANGED <<sent, sideVars>> /\ \E p \in ManagingPages : \E a \in ActorsOn(p), c \in ChapterIds, err \in BOOLEAN :
          handleDeleteChapter(a, c, err)

Spec == Init /\ [][Next]_vars

\* The files specification: the writer page sends file requests; the chapter
\* is meanwhile reassigned, submitted, marked
\* reviewed, confirmed, unconfirmed and deleted by the handlers above, with
\* the text FileText and no storage failure (the file handlers read neither
\* the bodies nor the outcome of those requests).
FileText == <<"a">>

NextFiles ==
    \/ UNCHANGED <<sent, sideVars>> /\ \E u \in Users : Login(u)
    \/ UNCHANGED <<sent, sideVars>> /\ handleLogout
    \/ UNCHANGED <<sent, sideVars>> /\ \E p \in Pages \ {"legacy"} : loadData(p)
    \/ UNCHANGED <<sent, sideVars>> /\ \E c \in ChapterIds : openEditing(c)
    \/ UNCHANGED <<sent, sideVars>> /\ closeEditing
    \/ UNCHANGED <<sent, sideVars>> /\ \E a \in ActorsOn("writer"), c \in ChapterIds, n \in 1 .. MaxFiles,
          failAt \in 0 .. MaxFiles, stage \in {"upload", "insert"} :
          failAt <= n /\ handleFileUpload(a, c, n, failAt, stage)
    \/ UNCHANGED <<sent, sideVars>> /\ \E a \in ActorsOn("writer"), c \in ChapterIds, f \in FileIds,
          removed \in BOOLEAN, err \in BOOLEAN :
          handleFileDelete(a, c, f, removed, err)
    \/ UNCHANGED <<sent, sideVars>> /\ \E a \in ActorsOn("writer"), c \in ChapterIds : WriterSubmit(a, c, FileText, FALSE)
    \/ UNCHANGED <<sent, sideVars>> /\ \E a \in ActorsOn("editor") : EditorSave(a, FileText, FALSE)
    \/ UNCHANGED <<sent, sideVars>> /\ \E a \in ActorsOn("editor") : EditorReview(a, FileText, FALSE)
    \/ UNCHANGED <<sent, sideVars>> /\ \E a \in ActorsOn("admin"), c \in ChapterIds : AdminConfirm(a, c, FALSE)
    \/ UNCHANGED <<sent, sideVars>> /\ \E a \in ActorsOn("admin"), c \in ChapterIds : AdminUnconfirm(a, c, FALSE)
    \/ UNCHANGED <<sent, sideVars>> /\ \E p \in ManagingPages : \E a \in ActorsOn(p), c \in ChapterIds,
                                   w \in WriterIds \cup {NULL} :
          handleUpdateChapter(a, c, w, FALSE)
    \/ UNCHANGED <<sent, sideVars>> /\ \E p \in ManagingPages : \E a \in ActorsOn(p), c \in ChapterIds, err \in BOOLEAN :
          handleDeleteChapter(a, c, err)

SpecFiles == Init /\ [][NextFiles]_vars

\* The upload specification: the held writer page's upload goes call by call
\* while other users reassign and delete the chapter and upload to it; the
\* held page does nothing else until its upload has returned.
NextFlight ==
    \/ UNCHANGED <<sent, sideVars>> /\ flight = NoFlight /\ \E u \in Users : Login(u)
    \/ UNCHANGED <<sent, sideVars>> /\ flight = NoFlight /\ handleLogout
    \/ UNCHANGED <<sent, sideVars>> /\ flight = NoFlight
          /\ \E p \in {"writer", "admin", "editor"} : loadData(p)
    \/ UNCHANGED <<sent, userVars, nav, busy, overview>> /\ \E c \in ChapterIds, n \in 1 .. MaxFiles : beginUpload(c, n)
    \/ UNCHANGED <<sent, userVars, nav, busy, overview>> /\ \E err \in BOOLEAN : uploadBlob(err)
    \/ UNCHANGED <<sent, userVars, nav, busy, overview>> /\ \E err \in BOOLEAN : insertRecord(err)
    \/ UNCHANGED <<sent, sideVars>>
          /\ \E a \in VisitorsOf("writer"), c \in ChapterIds, n \in 1 .. MaxFiles,
                failAt \in 0 .. MaxFiles, stage \in {"upload", "insert"} :
                failAt <= n /\ handleFileUpload(a, c, n, failAt, stage)
    \/ UNCHANGED <<sent, sideVars>>
          /\ \E p \in ManagingPages : \E a \in VisitorsOf(p), c \in ChapterIds,
                                         w \in WriterIds \cup {NULL} :
                handleUpdateChapter(a, c, w, FALSE)
    \/ UNCHANGED <<sent, sideVars>> /\ flight = NoFlight
          /\ \E c \in ChapterIds : handleDeleteChapter(HeldActor, c, FALSE)
    \/ UNCHANGED <<sent, sideVars>>
          /\ \E p \in ManagingPages : \E a \in VisitorsOf(p), c \in ChapterIds :
                handleDeleteChapter(a, c, FALSE)

SpecFlight == Init /\ [][NextFlight]_vars

\* The management specification: the chapters table starts empty; the held
\* admin or editor page adds chapters, edits their metadata and assigns
\* writers while other users take the chapters through the lifecycle (with
\* the text FileText there); no storage failure.
InitEmpty ==
    /\ store = [c \in ChapterIds |-> NoRow]
    /\ session = NULL
    /\ page = "login"
    /\ local = NothingLoaded
    /\ editingId = NoChapter
    /\ resp = NoRequest
    /\ files = NoFiles
    /\ blobs = {}
    /\ localFiles = NoFiles
    /\ sent = NoSent
    /\ flight = NoFlight
    /\ users = SeedUsers
    /\ usersPage = [t \in UserTabs |-> FreshTab]
    /\ usersToast = NoToast
    /\ nav = NoNav
    /\ busy = {}
    /\ overview = NoOverview

NextManage ==
    \/ UNCHANGED <<sent, sideVars>> /\ \E u \in Users : Login(u)
    \/ UNCHANGED <<sent, sideVars>> /\ handleLogout
    \/ UNCHANGED <<sent, sideVars>> /\ \E p \in Pages \ {"legacy"} : loadData(p)
    \/ UNCHANGED <<sent, sideVars>>
          /\ \E c \in ChapterIds, form \in Forms :
                handleAddChapter(HeldActor, c, form, FALSE)
    \/ UNCHANGED <<sent, sideVars>>
          /\ \E c \in ChapterIds, form \in Forms :
                handleUpdateChapterForm(HeldActor, c, form, FALSE)
    \/ UNCHANGED <<sent, sideVars>>
          /\ \E c \in ChapterIds, w \in WriterIds \cup {NULL} :
                handleAssignWriter(HeldActor, c, w, FALSE)
    \/ UNCHANGED <<sent, sideVars>>
          /\ \E a \in VisitorsOf("writer"), c \in ChapterIds : WriterSubmit(a, c, FileText, FALSE)
    \/ UNCHANGED <<sent, sideVars>>
          /\ \E a \in VisitorsOf("editor") : EditorSave(a, FileText, FALSE)
    \/ UNCHANGED <<sent, sideVars>>
          /\ \E a \in VisitorsOf("editor") : EditorReview(a, FileText, FALSE)
    \/ UNCHANGED <<sent, sideVars>>
          /\ \E a \in VisitorsOf("admin"), c \in ChapterIds : AdminConfirm(a, c, FALSE)
    \/ UNCHANGED <<sent, sideVars>>
          /\ \E a \in VisitorsOf("admin"), c \in ChapterIds : AdminUnconfirm(a, c, FALSE)

SpecManage == InitEmpty /\ [][NextManage]_vars

----------------------------------------------------------------------------
(* Users page *)

chapterVars == <<store, session, page, local, editingId, resp, fileVars, sent, flight, nav, busy, overview>>

UserIdsIn(rows) == {r.id : r \in rows}

\* loadData: the writer_id of every chapter that has one
AssignedIds(st) ==
    {st[c].writer_id : c \in {d \in ChapterIds : st[d].exists /\ st[d].writer_id # NULL}}

usersLoadData(t) ==
    /\ usersPage' = [usersPage EXCEPT ![t].assigned = AssignedIds(store)]
    /\ usersToast' = NoToast
    /\ UNCHANGED <<users, chapterVars>>

\* assignedUserIds.has(user.id)
DeleteRefused(tab, u) == u \in tab.assigned

\* u: the user of the row whose delete button was pressed (no button on an
\* admin's row)
handleDelete(t, u, err) ==
    /\ u \notin AdminIds
    /\ IF DeleteRefused(usersPage[t], u) \/ err
       THEN /\ usersToast' = Toast("delete", "error")
            /\ UNCHANGED <<users, usersPage>>
       ELSE /\ users' = {r \in users : r.id # u}
            /\ usersToast' = Toast("delete", "success")
            /\ usersPage' = [usersPage EXCEPT ![t].assigned = AssignedIds(store)]
    /\ UNCHANGED chapterVars

\* .select('id').eq('name', name).maybeSingle(): the row, when exactly one matches
Existing(name) == Cardinality({r \in users : r.name = name}) = 1

\* ids the insert can give a new row
FreeUserIds == NewUserIds \ UserIdsIn(users)
Adding == {t \in UserTabs : usersPage[t].adding}

\* handleAdd up to the answer of the existence check
handleAddCheck(t, form) ==
    /\ ~usersPage[t].adding
    /\ Cardinality(FreeUserIds) > Cardinality(Adding)
    /\ IF IsBlank(form.name) \/ ~FourDigits(form.password) \/ Existing(Trim(form.name))
       THEN /\ usersToast' = Toast("add", "error")
            /\ UNCHANGED usersPage
       ELSE /\ usersToast' = NoToast
            /\ usersPage' = [usersPage EXCEPT ![t].adding = TRUE, ![t].form = form]
    /\ UNCHANGED <<users, chapterVars>>

\* handleAdd from the insert on
handleAddInsert(t, err) ==
    /\ usersPage[t].adding
    /\ IF err
       THEN /\ usersToast' = Toast("add", "error")
            /\ usersPage' = [usersPage EXCEPT ![t].adding = FALSE, ![t].form = NoForm]
            /\ UNCHANGED users
       ELSE /\ LET id == CHOOSE i \in FreeUserIds : \A j \in FreeUserIds : i[2] <= j[2]
                   form == usersPage[t].form
               IN users' = users \cup {UserRow(id, Trim(form.name), form.role)}
            /\ usersToast' = Toast("add", "success")
            /\ usersPage' = [usersPage EXCEPT ![t] = Tab(AssignedIds(store), FALSE, NoForm)]
    /\ UNCHANGED chapterVars

\* The users specification: the users page open in NumTabs tabs, its add
\* request in two steps, while admins and editors assign writers.
NextUsers ==
    \/ \E t \in UserTabs : usersLoadData(t)
    \/ \E t \in UserTabs, u \in Users \cup NewUserIds, err \in BOOLEAN : handleDelete(t, u, err)
    \/ \E t \in UserTabs, form \in AddForms : handleAddCheck(t, form)
    \/ \E t \in UserTabs, err \in BOOLEAN : handleAddInsert(t, err)
    \/ UNCHANGED <<sent, sideVars>>
          /\ \E p \in ManagingPages : \E a \in VisitorsOf(p), c \in ChapterIds,
                                         w \in WriterIds \cup {NULL} :
                handleAssignWriter(a, c, w, FALSE)

SpecUsers == Init /\ [][NextUsers]_vars

----------------------------------------------------------------------------
(* Requests through the middleware *)

notNav == <<store, session, page, local, editingId, resp, fileVars, sent, flight, userVars, busy, overview>>

\* The browser requests the URL it is at.  A path outside the matcher does
\* not reach the middleware.  A redirect is followed: the browser is then at
\* the redirect's target.
request ==
    /\ nav.last.kind # "next"
    /\ nav.hops < MaxHops
    /\ LET r == IF Matched(nav.path) THEN middlewareOn(nav.cookie, nav.path) ELSE PassThrough
       IN nav' = IF r.kind = "redirect"
                 THEN Nav(nav.cookie, r.to, nav.path, r, nav.hops + 1)
                 ELSE Nav(nav.cookie, nav.path, nav.path, r, nav.hops)
    /\ UNCHANGED notNav

\* The user of a browser that was let through enters another URL
enterUrl(pathname) ==
    /\ nav.last.kind = "next"
    /\ nav' = Nav(nav.cookie, pathname, NoPath, NoResponse, 0)
    /\ UNCHANGED notNav

\* A browser with any cookie is sent to any path of the matcher
InitRoute ==
    /\ store = [c \in ChapterIds |-> NewRow]
    /\ session = NULL
    /\ page = "login"
    /\ local = NothingLoaded
    /\ editingId = NoChapter
    /\ resp = NoRequest
    /\ files = NoFiles
    /\ blobs = {}
    /\ localFiles = NoFiles
    /\ sent = NoSent
    /\ flight = NoFlight
    /\ users = SeedUsers
    /\ usersPage = [t \in UserTabs |-> FreshTab]
    /\ usersToast = NoToast
    /\ busy = {}
    /\ overview = NoOverview
    /\ \E cookie \in Cookies, pathname \in Paths : nav = Nav(cookie, pathname, NoPath, NoResponse, 0)

NextRoute ==
    \/ request
    \/ \E pathname \in Paths : enterUrl(pathname)

SpecRoute == InitRoute /\ [][NextRoute]_vars

----------------------------------------------------------------------------
(* The in-progress flags of the writer and editor pages *)

Flags == {"saving", "submitting", "confirming"}

\* the flag each handler sets before its store call
FlagOf(op) ==
    CASE op = "writerSave"   -> "saving"
      [] op = "writerSubmit" -> "submitting"
      [] op = "editorSave"   -> "saving"
      [] op = "editorReview" -> "confirming"

\* A handler past its setSaving / setSubmitting / setConfirming: what its
\* closure holds (chapter, user, status shown, text); returned once its
\* try / catch / finally has run
Started(op, c, u, shown, text, isReturned) ==
    [flag |-> FlagOf(op), op |-> op, id |-> c, user |-> u, shown |-> shown,
     text |-> text, returned |-> isReturned]

FlagSet(flag) == \E r \in busy : r.flag = flag

\* the handler's lines before its try block
MayStart(op, c, text) ==
    CASE op = "writerSave" ->
            page = "writer" /\ local[c] # NotLoaded /\ ~isLocked(local[c])
      [] op = "writerSubmit" ->
            /\ page = "writer" /\ local[c] # NotLoaded /\ ~isLocked(local[c])
            /\ ~IsBlank(text)
      [] op = "editorSave" ->
            /\ page = "editor" /\ editingId = c /\ local[c] # NotLoaded
            /\ local[c] \notin {"confirmed", "reviewed"}
      [] op = "editorReview" ->
            page = "editor" /\ editingId = c /\ local[c] # NotLoaded /\ ~IsBlank(text)

\* The button is disabled while its flag is set
start(op, c, text) ==
    /\ session # NULL
    /\ ~FlagSet(FlagOf(op))
    /\ MayStart(op, c, text)
    /\ busy' = busy \cup {Started(op, c, session, local[c], text, FALSE)}
    /\ resp' = NoRequest
    /\ UNCHANGED <<store, session, page, local, editingId, fileVars, sent, flight, userVars, nav, overview>>

Matches(r, row) ==
    CASE r.op = "writerSave"   -> WriterSaveFilter(row, r.user)
      [] r.op = "writerSubmit" -> WriterSubmitFilter(row, r.user)
      [] r.op = "editorSave"   -> EditorSaveFilter(row)
      [] r.op = "editorReview" -> EditorReviewFilter(row)

Patched(r, row) ==
    CASE r.op = "writerSave"   -> WriterSavePatch(row, r.shown, r.text)
      [] r.op = "writerSubmit" -> WriterSubmitPatch(row, r.text)
      [] r.op = "editorSave"   -> EditorSavePatch(row, r.user, r.text)
      [] r.op = "editorReview" -> EditorReviewPatch(row, r.user, r.text)

\* setChapters after the success toast
ShownAfter(r, shown) ==
    CASE r.op = "writerSave"   -> IF shown = "submitted" THEN "draft" ELSE shown
      [] r.op = "writerSubmit" -> "submitted"
      [] r.op = "editorSave"   -> "editing"
      [] r.op = "editorReview" -> "reviewed"

\* the store call returns without error, returns an error, or throws
Outcomes == {"ok", "error", "throws"}

\* the flag is reset after the success toast only
ClearedInTry(outcome) == outcome = "ok"

\* finally { setSaving(null) / setSubmitting(null) / setConfirming(false) }
Cleared(outcome) == TRUE

\* The store call of r has its outcome and the rest of the handler runs
settle(r, outcome) ==
    /\ r \in busy /\ ~r.returned
    /\ LET rows == Rows(store[r.id], Matches(r, store[r.id])) IN
       IF outcome = "ok"
       THEN /\ store' = [store EXCEPT ![r.id] = IF rows = 1 THEN Patched(r, @) ELSE @]
            /\ resp' = Resp(r.op, r.id, "success", rows)
            /\ local' = [local EXCEPT ![r.id] = ShownAfter(r, @)]
            /\ editingId' = IF r.op = "editorReview" THEN NoChapter ELSE editingId
       ELSE /\ resp' = Resp(r.op, r.id, "error", 0)
            /\ UNCHANGED <<store, local, editingId>>
    /\ busy' = IF Cleared(outcome)
               THEN busy \ {r}
               ELSE (busy \ {r}) \cup {[r EXCEPT !.returned = TRUE]}
    /\ UNCHANGED <<session, page, fileVars, sent, flight, userVars, nav, overview>>

Settle(flag) == \E r \in busy, outcome \in Outcomes : r.flag = flag /\ settle(r, outcome)

\* The flags specification: the held page starts saves, submits and reviews
\* and stays as it is until they have returned; other users work on the
\* chapter in between.
NextBusy ==
    \/ UNCHANGED <<sent, sideVars>> /\ busy = {} /\ \E u \in Users : Login(u)
    \/ UNCHANGED <<sent, sideVars>> /\ busy = {} /\ handleLogout
    \/ UNCHANGED <<sent, sideVars>> /\ busy = {}
          /\ \E p \in {"writer", "editor"} : loadData(p)
    \/ UNCHANGED <<sent, sideVars>> /\ busy = {} /\ \E c \in ChapterIds : openEditing(c)
    \/ \E op \in {"writerSave", "writerSubmit"}, c \in ChapterIds : start(op, c, FileText)
    \/ \E op \in {"editorSave", "editorReview"}, c \in ChapterIds : start(op, c, FileText)
    \/ \E flag \in Flags : Settle(flag)
    \/ UNCHANGED <<sent, sideVars>>
          /\ \E p \in ManagingPages : \E a \in VisitorsOf(p), c \in ChapterIds,
                                         w \in WriterIds \cup {NULL} :
                handleUpdateChapter(a, c, w, FALSE)
    \/ UNCHANGED <<sent, sideVars>>
          /\ \E a \in VisitorsOf("writer"), c \in ChapterIds : WriterSubmit(a, c, FileText, FALSE)
    \/ UNCHANGED <<sent, sideVars>>
          /\ \E a \in VisitorsOf("editor") : EditorReview(a, FileText, FALSE)
    \/ UNCHANGED <<sent, sideVars>>
          /\ \E a \in VisitorsOf("admin"), c \in ChapterIds : AdminConfirm(a, c, FALSE)

\* A store call that was made returns or throws, and the page's continuation
\* runs then
SpecBusy == Init /\ [][NextBusy]_vars /\ \A flag \in Flags : WF_vars(Settle(flag))

----------------------------------------------------------------------------
(* ProgressOverview with the chapters it is given *)

notOverview == <<store, session, page, local, editingId, resp, fileVars, sent, flight, userVars, nav, busy>>

\* The component is rendered with its chapters
render ==
    /\ overview.progress = NotRendered
    /\ \E p \in Progress(overview.total, overview.confirmed) :
          overview' = Overview(overview.total, overview.confirmed, p)
    /\ UNCHANGED notOverview

\* The list it is given next has one chapter more or less, or one more or
\* less of its chapters is confirmed
setChapters(total, confirmed) ==
    /\ overview.progress # NotRendered
    /\ total \in 0 .. MaxChapters /\ confirmed \in 0 .. total
    /\ overview' = Overview(total, confirmed, NotRendered)
    /\ UNCHANGED notOverview

NextProgress ==
    \/ render
    \/ setChapters(overview.total + 1, overview.confirmed)
    \/ setChapters(overview.total - 1, overview.confirmed)
    \/ setChapters(overview.total, overview.confirmed + 1)
    \/ setChapters(overview.total, overview.confirmed - 1)

SpecProgress == Init /\ [][NextProgress]_vars

\* The round trip: a new draft is assigned, and then each lifecycle request is
\* sent when the stored chapter is in the status the request starts from;
\* no storage failure.
TripRequests ==
    \/ UNCHANGED <<sent, sideVars>> /\ \E a \in ActorsOn("writer"), c \in ChapterIds, text \in InputTexts :
          /\ store[c].status = "draft"
          /\ ~IsBlank(text)
          /\ WriterSubmit(a, c, text, FALSE)
    \/ UNCHANGED <<sent, sideVars>> /\ \E a \in ActorsOn("editor"), text \in InputTexts :
          /\ a.editing # NoChapter
          /\ store[a.editing].status = "submitted"
          /\ EditorSave(a, text, FALSE)
    \/ UNCHANGED <<sent, sideVars>> /\ \E a \in ActorsOn("editor"), text \in InputTexts :
          /\ a.editing # NoChapter
          /\ store[a.editing].status = "editing"
          /\ ~IsBlank(text)
          /\ EditorReview(a, text, FALSE)
    \/ UNCHANGED <<sent, sideVars>> /\ \E a \in ActorsOn("admin"), c \in ChapterIds :
          store[c].status = "reviewed" /\ AdminConfirm(a, c, FALSE)
    \/ UNCHANGED <<sent, sideVars>> /\ \E a \in ActorsOn("admin"), c \in ChapterIds :
          store[c].status = "confirmed" /\ AdminUnconfirm(a, c, FALSE)

NextTrip ==
    \/ UNCHANGED <<sent, sideVars>> /\ \E u \in Users : Login(u)
    \/ UNCHANGED <<sent, sideVars>> /\ handleLogout
    \/ UNCHANGED <<sent, sideVars>> /\ \E p \in Pages \ {"legacy"} : loadData(p)
    \/ UNCHANGED <<sent, sideVars>> /\ \E c \in ChapterIds : openEditing(c)
    \/ UNCHANGED <<sent, sideVars>> /\ closeEditing
    \/ UNCHANGED <<sent, sideVars>> /\ \E p \in ManagingPages : \E a \in ActorsOn(p), c \in ChapterIds, w \in WriterIds :
          /\ store[c].status = "draft"
          /\ store[c].writer_id = NULL
          /\ handleUpdateChapter(a, c, w, FALSE)
    \/ TripRequests

SpecTrip == Init /\ [][NextTrip]_vars

\* The retry specification: the held page records each request it has had
\* applied, and its user may send it again from the same page; in between,
\* other users' requests are applied.  No storage failure.
\* The held page sends the request (op, c, text)
HeldRequest(op, c, text) ==
    \/ op = "writerSubmit" /\ text \in InputTexts /\ WriterSubmit(HeldActor, c, text, FALSE)
    \/ op = "editorSave" /\ text \in InputTexts /\ editingId = c
                          /\ EditorSave(HeldActor, text, FALSE)
    \/ op = "editorReview" /\ text \in InputTexts /\ editingId = c
                            /\ EditorReview(HeldActor, text, FALSE)
    \/ op = "adminConfirm" /\ text = NullText /\ AdminConfirm(HeldActor, c, FALSE)
    \/ op = "adminUnconfirm" /\ text = NullText /\ AdminUnconfirm(HeldActor, c, FALSE)

\* ... and keeps it for sending again if it was applied
SendAndKeep(op, c, text) ==
    /\ HeldRequest(op, c, text)
    /\ sent' = IF resp'.toast = "success" /\ resp'.rows = 1
               THEN Sent(op, c, session, text) ELSE sent
    /\ UNCHANGED sideVars

Others(p) == {a \in VisitorsOf(p) : a.user # session}

NextRetry ==
    \/ sent' = NoSent /\ UNCHANGED sideVars /\ \E u \in Users : Login(u)
    \/ sent' = NoSent /\ UNCHANGED sideVars /\ handleLogout
    \/ UNCHANGED <<sent, sideVars>> /\ \E p \in Pages \ {"legacy"} : loadData(p)
    \/ UNCHANGED <<sent, sideVars>> /\ \E c \in ChapterIds : openEditing(c)
    \/ UNCHANGED <<sent, sideVars>> /\ closeEditing
    \/ \E c \in ChapterIds, text \in InputTexts : SendAndKeep("writerSubmit", c, text)
    \/ \E c \in ChapterIds, text \in InputTexts : SendAndKeep("editorSave", c, text)
    \/ \E c \in ChapterIds, text \in InputTexts : SendAndKeep("editorReview", c, text)
    \/ \E c \in ChapterIds : SendAndKeep("adminConfirm", c, NullText)
    \/ \E c \in ChapterIds : SendAndKeep("adminUnconfirm", c, NullText)
    \/ UNCHANGED <<sent, sideVars>> /\ \E a \in Others("writer"), c \in ChapterIds :
          WriterSubmit(a, c, FileText, FALSE)
    \/ UNCHANGED <<sent, sideVars>> /\ \E a \in Others("editor") : EditorSave(a, FileText, FALSE)
    \/ UNCHANGED <<sent, sideVars>> /\ \E a \in Others("editor") : EditorReview(a, FileText, FALSE)
    \/ UNCHANGED <<sent, sideVars>> /\ \E a \in Others("admin"), c \in ChapterIds : AdminConfirm(a, c, FALSE)
    \/ UNCHANGED <<sent, sideVars>> /\ \E a \in Others("admin"), c \in ChapterIds : AdminUnconfirm(a, c, FALSE)
    \/ UNCHANGED <<sent, sideVars>> /\ \E p \in ManagingPages : \E a \in Others(p), c \in ChapterIds, w \in WriterIds :
          store[c].writer_id = NULL /\ handleUpdateChapter(a, c, w, FALSE)

SpecRetry == Init /\ [][NextRetry]_vars

----------------------------------------------------------------------------
(* Properties *)

Row(c) == store[c]
RowAfter(c) == store'[c]
Closed == {"reviewed", "confirmed"}

WriterSaveStep(a, c, text) == \E err \in BOOLEAN : WriterSave(a, c, text, err)
WriterSubmitStep(a, c, text) == \E err \in BOOLEAN : WriterSubmit(a, c, text, err)
AdminConfirmStep(c) ==
    \E a \in ActorsOn("admin"), err \in BOOLEAN : AdminConfirm(a, c, err)
AdminUnconfirmStep(c) ==
    \E a \in ActorsOn("admin"), err \in BOOLEAN : AdminUnconfirm(a, c, err)
EditorWriteStep(a) ==
    \E text \in InputTexts, err \in BOOLEAN :
        EditorSave(a, text, err) \/ EditorReview(a, text, err)

\* C1: once the stored status is reviewed or confirmed no write changes it to
\* draft, submitted or editing; from those states the status changes only
\* reviewed -> confirmed by Confirm and confirmed -> reviewed by Unconfirm.
C1_NoDowngrade ==
    [][\A c \in ChapterIds :
          (Row(c).exists /\ Row(c).status \in Closed /\ RowAfter(c).exists) =>
             /\ RowAfter(c).status \in Closed
             /\ (Row(c).status = "reviewed" /\ RowAfter(c).status = "confirmed")
                   => AdminConfirmStep(c)
             /\ (Row(c).status = "confirmed" /\ RowAfter(c).status = "reviewed")
                   => AdminUnconfirmStep(c)]_vars

\* C2: in every reachable state, for every chapter, confirmed_by and
\* confirmed_at are non-null if and only if the stored status is confirmed.
C2_ConfirmedProvenance ==
    \A c \in ChapterIds :
        Row(c).exists =>
           /\ (Row(c).confirmed_by # NULL) <=> (Row(c).status = "confirmed")
           /\ (Row(c).confirmed_at # NoTime) <=> (Row(c).status = "confirmed")

\* C3: in every reachable state, for every chapter, reviewed_by and
\* reviewed_at are non-null if and only if the stored status is reviewed or
\* confirmed.
C3_ReviewedProvenance ==
    \A c \in ChapterIds :
        Row(c).exists =>
           /\ (Row(c).reviewed_by # NULL) <=> (Row(c).status \in Closed)
           /\ (Row(c).reviewed_at # NoTime) <=> (Row(c).status \in Closed)

\* C4: an editor's save or mark-reviewed write issued while the stored status
\* of the chapter is reviewed or confirmed matches zero rows: the stored row
\* (status, edited_body, edited_by, edited_at, reviewed_by, reviewed_at and
\* every other column) is unchanged.  Stated per step: a step that changes a
\* reviewed or confirmed row is no editor save or mark-reviewed of that
\* chapter, and such a request of the held page reports zero rows matched.
C4_EditorWriteOnClosedIsNoOp ==
    [][\A c \in ChapterIds :
          (Row(c).exists /\ Row(c).status \in Closed) =>
             /\ RowAfter(c) # Row(c) =>
                   ~\E a \in ActorsOn("editor") : a.editing = c /\ EditorWriteStep(a)
             /\ (resp'.id = c /\ resp'.op \in {"editorSave", "editorReview"})
                   => resp'.rows = 0]_vars

\* C4 witness: the held editor page, its modal opened while the chapter was
\* submitted or editing, has just sent a save or a mark-reviewed for a chapter
\* that is stored as reviewed or confirmed.
C4_Witness ==
    /\ resp.op \in {"editorSave", "editorReview"}
    /\ resp.toast = "success"
    /\ resp.rows = 0
    /\ Row(resp.id).exists
    /\ Row(resp.id).status \in Closed

\* C5: while the stored status is confirmed no request changes original_body
\* or edited_body, and the only request that changes the status is the
\* admin's Unconfirm, which sets it to reviewed.
C5_ConfirmedImmutable ==
    [][\A c \in ChapterIds :
          (Row(c).exists /\ Row(c).status = "confirmed") =>
             /\ RowAfter(c).exists
             /\ RowAfter(c).original_body = Row(c).original_body
             /\ RowAfter(c).edited_body = Row(c).edited_body
             /\ RowAfter(c).status # "confirmed"
                   => RowAfter(c).status = "reviewed" /\ AdminUnconfirmStep(c)]_vars

ConditionalWrites ==
    {"writerSave", "writerSubmit", "editorSave", "editorReview",
     "legacySave", "legacyConfirm", "adminConfirm", "adminUnconfirm",
     "deleteChapter"}

\* C6: a conditional write that matches zero rows of an existing chapter
\* (its status or owner no longer satisfies the filter) is reported as a
\* failure, never as a success, and the page's copy is not updated as if the
\* write had landed.
C6_ZeroRowsReported ==
    (/\ resp.op \in ConditionalWrites
     /\ resp.rows = 0
     /\ Row(resp.id).exists)
    => resp.toast = "error"

\* C7: a writer's Save changes the stored chapter only when the stored status
\* is draft or submitted; after a save that takes effect the stored status is
\* draft and original_body is the saved text.
C7_WriterSaveGuard ==
    [][\A a \in ActorsOn("writer"), c \in ChapterIds, text \in InputTexts :
          (WriterSaveStep(a, c, text) /\ RowAfter(c) # Row(c)) =>
             /\ Row(c).status \in {"draft", "submitted"}
             /\ RowAfter(c).status = "draft"
             /\ RowAfter(c).original_body = text]_vars

\* C8: a writer's Submit changes the stored chapter only when the stored
\* status is draft or submitted; after a submit that takes effect the status
\* is submitted, submitted_at is set and original_body is the submitted text.
C8_WriterSubmitGuard ==
    [][\A a \in ActorsOn("writer"), c \in ChapterIds, text \in InputTexts :
          (WriterSubmitStep(a, c, text) /\ RowAfter(c) # Row(c)) =>
             /\ Row(c).status \in {"draft", "submitted"}
             /\ RowAfter(c).status = "submitted"
             /\ RowAfter(c).submitted_at # NoTime
             /\ RowAfter(c).original_body = text]_vars

\* C9: the status confirmed is entered only by Confirm, performed by an admin
\* while the stored status is reviewed, and Confirm leaves original_body,
\* edited_body, edited_by, reviewed_by and reviewed_at unchanged; no writer or
\* editor operation sets the status to confirmed.
C9_ConfirmOnlyByAdmin ==
    [][\A c \in ChapterIds :
          (/\ Row(c).exists
           /\ Row(c).status # "confirmed"
           /\ RowAfter(c).exists
           /\ RowAfter(c).status = "confirmed")
          => /\ Row(c).status = "reviewed"
             /\ Role(RowAfter(c).confirmed_by) = "admin"
             /\ AdminConfirmStep(c)
             /\ RowAfter(c).original_body = Row(c).original_body
             /\ RowAfter(c).edited_body = Row(c).edited_body
             /\ RowAfter(c).edited_by = Row(c).edited_by
             /\ RowAfter(c).reviewed_by = Row(c).reviewed_by
             /\ RowAfter(c).reviewed_at = Row(c).reviewed_at]_vars

\* C10: a save or submit by a writer whose id differs from the stored
\* writer_id is answered with an authorization error and leaves every field
\* of the stored chapter unchanged.
C10_NonOwnerRejected ==
    [][\A a \in ActorsOn("writer"), c \in ChapterIds, text \in InputTexts :
          (/\ Row(c).exists
           /\ Row(c).writer_id # a.user
           /\ WriterSaveStep(a, c, text) \/ WriterSubmitStep(a, c, text))
          => /\ RowAfter(c) = Row(c)
             /\ a.held => resp'.toast = "error"]_vars

DeleteStep(c) ==
    \E p \in ManagingPages : \E a \in ActorsOn(p), err \in BOOLEAN :
        handleDeleteChapter(a, c, err)

\* C11: a chapter is removed only while its stored status is draft.  A delete
\* that reaches the store when the status is no longer draft removes nothing:
\* the chapter row and its file records remain; and no step makes a chapter
\* whose stored status is not draft disappear.  Stated per step: from a
\* status other than draft the row exists after the step, and a step that
\* changes the row or the file records is no delete of that chapter.
C11_DeleteOnlyDraft ==
    [][\A c \in ChapterIds :
          (Row(c).exists /\ Row(c).status # "draft") =>
             /\ RowAfter(c).exists
             /\ (RowAfter(c) # Row(c) \/ files' # files) => ~DeleteStep(c)]_vars

\* C11 witness: the held admin or editor page, still showing the chapter as
\* draft, has sent the delete after the writer's submit; the chapter has a
\* file record.
C11_Witness ==
    /\ resp.op = "deleteChapter"
    /\ resp.toast = "success"
    /\ resp.rows = 0
    /\ Row(resp.id).exists
    /\ Row(resp.id).status = "submitted"
    /\ files[resp.id] # {}

\* C12: in every reachable state, for every chapter, edited_by and edited_at
\* are non-null only if the stored status is editing, reviewed or confirmed.
C12_EditedProvenance ==
    \A c \in ChapterIds :
        (Row(c).exists /\ (Row(c).edited_by # NULL \/ Row(c).edited_at # NoTime))
        => Row(c).status \in {"editing", "reviewed", "confirmed"}

\* C13: no file record is added to or removed from a chapter while the
\* chapter's stored status is confirmed.
C13_NoFileChangeWhileConfirmed ==
    [][\A c \in ChapterIds :
          (Row(c).exists /\ Row(c).status = "confirmed") => files'[c] = files[c]]_vars

\* C14: an editor's save on a chapter stored as submitted or editing is
\* accepted whichever editor wrote before, and the stored row then has status
\* editing with the edited_body and edited_by of this write (last write wins:
\* the second of two editors who both opened the chapter in submitted is
\* neither rejected nor merged).
C14_LastWriteWins ==
    [][\A c \in ChapterIds :
          (Row(c).exists /\ Row(c).status \in {"submitted", "editing"}) =>
             \A a \in {HeldActor} \cup {Visit(u, "editor", c) : u \in EditorIds},
                text \in InputTexts :
                (a.editing = c /\ EditorSave(a, text, FALSE))
                => /\ RowAfter(c).status = "editing"
                   /\ RowAfter(c).edited_body = text
                   /\ RowAfter(c).edited_by = a.user
                   /\ a.held => (resp'.toast = "success" /\ resp'.rows = 1)]_vars

\* C14 witness: two editors opened the chapter while it was submitted; the
\* other editor's save has been applied (status editing, edited_by the other
\* editor) and the held editor page, still showing submitted, has its modal
\* open to send the second save.
C14_Witness ==
    /\ page = "editor"
    /\ editingId # NoChapter
    /\ local[editingId] = "submitted"
    /\ Row(editingId).exists
    /\ Row(editingId).status = "editing"
    /\ Row(editingId).edited_by \in EditorIds \ {session}

TripSuccessor(status) ==
    CASE status = "draft"     -> "submitted"
      [] status = "submitted" -> "editing"
      [] status = "editing"   -> "reviewed"
      [] status = "reviewed"  -> "confirmed"
      [] status = "confirmed" -> "reviewed"

\* C15: from a newly created draft, submit, begin editing, mark reviewed,
\* confirm and unconfirm each take effect (the status moves to the next of the
\* sequence), and the unconfirm ends in status reviewed with confirmed_by and
\* confirmed_at null.
C15_RoundTrip ==
    [][TripRequests =>
          \A c \in ChapterIds :
             /\ RowAfter(c).status = TripSuccessor(Row(c).status)
             /\ Row(c).status = "confirmed" =>
                   /\ RowAfter(c).confirmed_by = NULL
                   /\ RowAfter(c).confirmed_at = NoTime]_vars

\* C15 witness: the held admin page's unconfirm has been applied at the end
\* of the sequence: the row is reviewed, carries the submit's, the editor's
\* and the reviewer's marks, and no confirmation.
C15_Witness ==
    /\ resp.op = "adminUnconfirm"
    /\ resp.rows = 1
    /\ Row(resp.id).status = "reviewed"
    /\ Row(resp.id).submitted_at # NoTime
    /\ Row(resp.id).edited_by # NULL
    /\ Row(resp.id).reviewed_by # NULL
    /\ Row(resp.id).confirmed_by = NULL
    /\ Row(resp.id).confirmed_at = NoTime

\* The row an applied Unconfirm leaves: status reviewed, no confirmation,
\* every other column as it was (updated_at aside).
Unconfirmed(row, after) ==
    after = [row EXCEPT !.status = "reviewed", !.confirmed_by = NULL,
                        !.confirmed_at = NoTime, !.updated_at = after.updated_at]

UnconfirmAsClaimed(c) ==
    /\ files' = files
    /\ blobs' = blobs
    /\ IF Row(c).exists /\ Row(c).status = "confirmed"
       THEN Unconfirmed(Row(c), RowAfter(c))
       ELSE RowAfter(c) = Row(c)

\* C16: an Unconfirm request that reaches the store takes effect only when the stored status is
\* confirmed: it then sets the status to reviewed and confirmed_by and
\* confirmed_at to null, leaving the bodies, the editing and review marks,
\* writer_id and the files as they were; on any other status it changes
\* nothing.
C16_UnconfirmFrame ==
    [][\A c \in ChapterIds :
          ~UnconfirmAsClaimed(c) =>
             ~\E a \in ActorsOn("admin") : AdminUnconfirm(a, c, FALSE)]_vars

\* C16 witness: the held admin page's Unconfirm has been applied to a chapter
\* that has a file record.
C16_Witness ==
    /\ resp.op = "adminUnconfirm"
    /\ resp.rows = 1
    /\ Row(resp.id).status = "reviewed"
    /\ files[resp.id] # {}

\* C16 second case: the held admin page's Unconfirm matched no row.
C16_WitnessNoMatch ==
    /\ resp.op = "adminUnconfirm"
    /\ resp.rows = 0
    /\ Row(resp.id).exists
    /\ Row(resp.id).status # "confirmed"

\* The held editor page has just had a save applied to the chapter open in
\* its modal.
SaveApplied ==
    /\ resp.op = "editorSave"
    /\ resp.toast = "success"
    /\ resp.rows = 1

\* C17: an editor's save sent a second time in a row, with the same body and
\* by the same editor, on the chapter the first save left in editing, is
\* accepted again and leaves the status, edited_body and edited_by the first
\* save left.
C17_SaveIdempotent ==
    [][SaveApplied =>
          (EditorSave(HeldActor, Row(resp.id).edited_body, FALSE) =>
              /\ resp'.toast = "success"
              /\ resp'.rows = 1
              /\ RowAfter(resp.id).status = "editing"
              /\ RowAfter(resp.id).status = Row(resp.id).status
              /\ RowAfter(resp.id).edited_body = Row(resp.id).edited_body
              /\ RowAfter(resp.id).edited_by = Row(resp.id).edited_by)]_vars

\* C17 witness: the state between the two saves, the first applied by the
\* held editor to a chapter that was already in editing on their page.
C17_Witness ==
    /\ SaveApplied
    /\ editingId = resp.id
    /\ Row(resp.id).status = "editing"
    /\ Row(resp.id).edited_by = session
    /\ Row(resp.id).edited_body = <<"a">>

\* The held page's Submit or Mark reviewed with a blank body.
BlankRequest(text) ==
    /\ IsBlank(text)
    /\ \/ \E c \in ChapterIds : WriterSubmit(HeldActor, c, text, FALSE)
       \/ EditorReview(HeldActor, text, FALSE)

\* C18: a Submit or a Mark reviewed with an empty or whitespace-only body is
\* reported to the actor as a failure, writes nothing and leaves the chapter
\* unchanged; no Submit leaves a submitted chapter with a blank original_body
\* and no chapter enters reviewed with a blank edited_body.
C18_BlankRejected ==
    [][/\ \A text \in InputTexts :
             BlankRequest(text) => (resp'.toast = "error" /\ store' = store)
       /\ \A c \in ChapterIds :
             /\ (resp'.op = "writerSubmit" /\ resp'.id = c /\ resp'.rows = 1)
                   => ~IsBlank(RowAfter(c).original_body)
             /\ (Row(c).status # "reviewed" /\ RowAfter(c).status = "reviewed")
                   => ~IsBlank(RowAfter(c).edited_body)]_vars

\* A row with its timestamps set aside
AsideTimes(row) ==
    [row EXCEPT !.edited_at = NoTime, !.reviewed_at = NoTime,
                !.confirmed_at = NoTime, !.submitted_at = NoTime,
                !.updated_at = NoTime]

\* C19: a request sent again by the same actor with the same payload, after
\* it was applied, succeeds or matches zero rows and leaves the stored chapter
\* (timestamps aside) as it was, also when other actors' transitions were
\* applied in between: the retry undoes none of them.
C19_RetryIdempotent ==
    [][(/\ sent # NoSent
        /\ sent.user = session
        /\ HeldRequest(sent.op, sent.id, sent.text))
       => /\ resp'.toast = "success"
          /\ AsideTimes(RowAfter(sent.id)) = AsideTimes(Row(sent.id))]_vars

\* C20: a request that ends in failure leaves the persisted state (chapters,
\* file records, stored blobs) exactly as it was: a multi-file upload whose
\* k-th file fails leaves no blob and no record of the files before it, and a
\* file delete whose record deletion fails leaves the blob in place.
C20_FailureLeavesNoTrace ==
    [][resp'.toast = "error" =>
          /\ store' = store
          /\ files' = files
          /\ blobs' = blobs]_vars

MetadataFrame(row, after) ==
    after = [row EXCEPT !.writer_id = after.writer_id,
                        !.order_number = after.order_number,
                        !.chapter_code = after.chapter_code,
                        !.title = after.title,
                        !.updated_at = after.updated_at]

\* C22: a reassignment of the writer and an edit of the metadata are accepted
\* whatever the stored status is, and change only writer_id, order_number,
\* chapter_code, title and updated_at: the status, the bodies, submitted_at
\* and the edited, reviewed and confirmed marks stay.
C22_MetadataFrame ==
    [][\A c \in ChapterIds :
          (Row(c).exists /\ resp'.id = c) =>
             /\ resp'.op = "updateChapter" =>
                   \A form \in Forms :
                      (FormValid(form) /\ handleUpdateChapterForm(HeldActor, c, form, FALSE)) =>
                         /\ MetadataFrame(Row(c), RowAfter(c))
                         /\ RowAfter(c).writer_id = form.writer_id
                         /\ RowAfter(c).order_number = form.order_number
                         /\ RowAfter(c).chapter_code = Trim(form.chapter_code)
                         /\ RowAfter(c).title = Trim(form.title)
                         /\ resp'.rows = 1
             /\ resp'.op = "assignWriter" =>
                   \A w \in WriterIds \cup {NULL} :
                      handleAssignWriter(HeldActor, c, w, FALSE) =>
                         /\ MetadataFrame(Row(c), RowAfter(c))
                         /\ RowAfter(c).writer_id = w
                         /\ RowAfter(c).title = Row(c).title
                         /\ resp'.rows = 1]_vars

\* C22 witness: the held page's metadata edit has been applied to a confirmed
\* chapter, which now has another title and writer.
C22_Witness ==
    /\ resp.op = "updateChapter"
    /\ resp.toast = "success"
    /\ resp.rows = 1
    /\ Row(resp.id).status = "confirmed"
    /\ Row(resp.id).title = <<"b">>
    /\ Row(resp.id).writer_id \in WriterIds
    /\ Row(resp.id).writer_id # Row(resp.id).confirmed_by

\* A row as a chapter has it before anybody worked on it: draft, no bodies,
\* nobody and no time in the submitted, edited, reviewed and confirmed marks
Fresh(row) ==
    /\ row.status = "draft"
    /\ row.original_body = NullText /\ row.edited_body = NullText
    /\ row.submitted_at = NoTime
    /\ row.edited_by = NULL /\ row.edited_at = NoTime
    /\ row.reviewed_by = NULL /\ row.reviewed_at = NoTime
    /\ row.confirmed_by = NULL /\ row.confirmed_at = NoTime

C23_WitnessBlank ==
    /\ resp.op = "addChapter" /\ resp.toast = "error"
    /\ ~Row(resp.id).exists

\* C24: Mark reviewed changes the stored row only when its status is submitted
\* or editing; then the status is reviewed, reviewed_by and edited_by are the
\* acting editor, reviewed_at equals edited_at, edited_body is the editor's
\* text, and original_body, writer_id and submitted_at are as before.
C24_MarkReviewed ==
    [][resp'.op = "editorReview" =>
          \A text \in InputTexts :
             EditorReview(HeldActor, text, FALSE) =>
                LET c == resp'.id IN
                IF Row(c).exists /\ Row(c).status \in {"submitted", "editing"}
                THEN /\ RowAfter(c).status = "reviewed"
                     /\ RowAfter(c).reviewed_by = session
                     /\ RowAfter(c).edited_by = session
                     /\ session \in EditorIds
                     /\ RowAfter(c).reviewed_at = RowAfter(c).edited_at
                     /\ RowAfter(c).reviewed_at # NoTime
                     /\ RowAfter(c).edited_body = text
                     /\ RowAfter(c).original_body = Row(c).original_body
                     /\ RowAfter(c).writer_id = Row(c).writer_id
                     /\ RowAfter(c).submitted_at = Row(c).submitted_at
                ELSE store' = store]_vars

\* C24 witness: the held editor page marked a chapter reviewed that another
\* editor had edited before, and the row carries the reviewer in both marks
C24_Witness ==
    /\ resp.op = "editorReview" /\ resp.toast = "success" /\ resp.rows = 1
    /\ Row(resp.id).status = "reviewed"
    /\ Row(resp.id).reviewed_by = session
    /\ Row(resp.id).edited_by = session
    /\ Row(resp.id).edited_body # Row(resp.id).original_body

\* The held editor page's Mark reviewed met a row that was no longer
\* submitted or editing
C24_WitnessNoMatch ==
    /\ resp.op = "editorReview" /\ resp.toast = "success" /\ resp.rows = 0
    /\ Row(resp.id).exists
    /\ Row(resp.id).status \in {"draft", "confirmed"}

\* C25: the writer_id of every chapter is the id of a row of the users table.
C25_WriterExists ==
    \A c \in ChapterIds :
       (Row(c).exists /\ Row(c).writer_id # NULL) => Row(c).writer_id \in UserIdsIn(users)

\* C28: no two rows of the users table have the same name.
C28_UniqueNames ==
    \A r1 \in users, r2 \in users : r1.name = r2.name => r1 = r2

\* The request just answered was for a protected path
Protected == nav.from # NoPath /\ nav.from # <<>> /\ Matched(nav.from)
IsRole(role) == role.type = "string" /\ role.text \in {"admin", "editor", "writer"}

\* C26: a request for /admin, /editor or /writer or a path below them passes
\* only with a cookie that parses and carries exactly the path's role; with no
\* cookie or an unparsable one it is redirected to '/', with another role to
\* that role's home, and to '/' when the role is none of admin, editor, writer.
C26_RoleGate ==
    Protected =>
       /\ nav.last.kind = "next" =>
             /\ nav.cookie.present /\ ~Throws(nav.cookie)
             /\ nav.cookie.role = RoleValue("string", routeRole(nav.from))
       /\ (~nav.cookie.present \/ Throws(nav.cookie)) => nav.last = Redirect(<<>>)
       /\ (nav.cookie.present /\ ~Throws(nav.cookie)
              /\ nav.cookie.role # RoleValue("string", routeRole(nav.from))) =>
             nav.last = Redirect(IF IsRole(nav.cookie.role)
                                 THEN Home(nav.cookie.role.text) ELSE <<>>)

\* C27: a browser sent to a path of the matcher is let through after at most
\* two redirects.
C27_AtMostTwoRedirects == nav.hops <= 2

\* C29: every writer save, writer submit, editor save and editor mark-reviewed
\* that has set its in-progress flag (saving, submitting, confirming) returns
\* and the flag is cleared, whether the store call succeeds, errors or throws.
C29_FlagsCleared ==
    /\ FlagSet("saving") ~> ~FlagSet("saving")
    /\ FlagSet("submitting") ~> ~FlagSet("submitting")
    /\ FlagSet("confirming") ~> ~FlagSet("confirming")

\* C29 witness: the held page's request failed and no flag is set
C29_Witness ==
    /\ resp.op \in {"writerSave", "writerSubmit", "editorSave", "editorReview"}
    /\ resp.toast = "error"
    /\ busy = {}

\* C30: the percentage ProgressOverview shows is an integer from 0 to 100, is
\* 0 when there is no chapter, and is 100 only if every chapter is confirmed.
C30_Percentage ==
    overview.progress # NotRendered =>
       /\ overview.progress \in 0 .. 100
       /\ overview.total = 0 => overview.progress = 0
       /\ overview.progress = 100 => overview.confirmed = overview.total
====
